---- MODULE Spec2Model ----
(***************************************************************************)
(* GPA calculator (script.js): the data layer (GPADataLayer), the          *)
(* processing layer (GPAProcessor) and the event handlers of the UI layer  *)
(* (GPAUI), as a state machine.                                            *)
(*                                                                         *)
(* Representation of JavaScript values.                                    *)
(*   number  [t |-> "number", k, n, d]: k = "fin" is the rational n/d in   *)
(*           lowest terms (d > 0); k = "nan" is NaN; k = "inf" is          *)
(*           +Infinity (n = 1) or -Infinity (n = -1).                      *)
(*   null    [t |-> "null", ...].                                          *)
(*   string  a course name is a sequence of one-character strings; grade   *)
(*           tokens, messages and input texts are TLA+ strings; a string   *)
(*           made by Number.prototype.toFixed(2) is                        *)
(*           [t |-> "string", k, n, d |-> 100], n the count of hundredths. *)
(* Arithmetic is exact rational arithmetic: the binary rounding error of   *)
(* IEEE doubles (which can only move a value sitting exactly on a rounding *)
(* tie) is not modelled.                                                   *)
(***************************************************************************)
EXTENDS Integers, Sequences, FiniteSets, TLC

\* Bound on the number of courses the store holds in the explored runs.
MaxCourses == 2

\* Bound on the length of the course sequences handed to calculateGPA directly.
MaxLen == 2

\* Bound on the number of times setItem throws in the explored runs.
MaxWriteFailures == 1

VARIABLES
    courses,       \* GPADataLayer.courses
    localStorage,  \* the item 'gpaCalculatorCourses' of localStorage
    coursesList,   \* the rows rendered into #coursesList
    results,       \* what #gpaValue, #totalCredits, #totalPoints, #courseCount show
    last,          \* the last handler run: its name, the length of the store when
                   \* it began, its inputs and its outcome
    failures,      \* the number of times setItem has thrown
    call           \* a direct call of a static GPAProcessor function and its result

vars == <<courses, localStorage, coursesList, results, last, failures, call>>

----------------------------------------------------------------------------
(* Numbers *)

Abs(x) == IF x < 0 THEN -x ELSE x

Sign(x) == IF x < 0 THEN -1 ELSE IF x > 0 THEN 1 ELSE 0

RECURSIVE GCD(_, _)
GCD(a, b) == IF b = 0 THEN a ELSE GCD(b, a % b)

Fin(n, d) ==
    LET g == GCD(Abs(n), Abs(d))
    IN  [t |-> "number", k |-> "fin", n |-> Sign(d) * (n \div g), d |-> Abs(d) \div g]

NaN == [t |-> "number", k |-> "nan", n |-> 0, d |-> 1]

Inf(s) == [t |-> "number", k |-> "inf", n |-> s, d |-> 1]

Infinity == Inf(1)

Null == [t |-> "null", k |-> "nan", n |-> 0, d |-> 1]

\* ToNumber: null converts to +0, a number is itself.
ToNumber(x) == IF x.t = "null" THEN Fin(0, 1) ELSE x

\* a + b
NumAdd(a, b) ==
    CASE a.k = "nan" \/ b.k = "nan" -> NaN
      [] a.k = "inf" /\ b.k = "inf" -> IF a.n = b.n THEN a ELSE NaN
      [] a.k = "inf" -> a
      [] b.k = "inf" -> b
      [] OTHER -> Fin(a.n * b.d + b.n * a.d, a.d * b.d)

\* a * b
NumMul(a, b) ==
    CASE a.k = "nan" \/ b.k = "nan" -> NaN
      [] a.k = "inf" \/ b.k = "inf" ->
            IF Sign(a.n) * Sign(b.n) = 0 THEN NaN ELSE Inf(Sign(a.n) * Sign(b.n))
      [] OTHER -> Fin(a.n * b.n, a.d * b.d)

\* a / b
NumDiv(a, b) ==
    CASE a.k = "nan" \/ b.k = "nan" -> NaN
      [] a.k = "inf" /\ b.k = "inf" -> NaN
      [] a.k = "inf" -> Inf(IF b.n < 0 THEN -a.n ELSE a.n)
      [] b.k = "inf" -> Fin(0, 1)
      [] b.n = 0 -> IF a.n = 0 THEN NaN ELSE Inf(Sign(a.n))
      [] OTHER -> Fin(a.n * b.d, a.d * b.n)

\* x > 0
GreaterThanZero(x) == (x.k = "fin" /\ x.n > 0) \/ (x.k = "inf" /\ x.n = 1)

\* x <= 0
LessEqZero(x) == (x.k = "fin" /\ x.n <= 0) \/ (x.k = "inf" /\ x.n = -1)

\* isNaN(x), after ToNumber
isNaN(x) == ToNumber(x).k = "nan"

\* x.toFixed(2): the magnitude rounded to the nearest hundredth, the larger one
\* on a tie; "NaN" and "Infinity" for the non-finite values.
toFixed2(x) ==
    CASE x.k = "nan" -> [t |-> "string", k |-> "nan", n |-> 0, d |-> 1]
      [] x.k = "inf" -> [t |-> "string", k |-> "inf", n |-> x.n, d |-> 1]
      [] OTHER ->
            [t |-> "string", k |-> "fin",
             n |-> Sign(x.n) * ((200 * Abs(x.n) + x.d) \div (2 * x.d)),
             d |-> 100]

----------------------------------------------------------------------------
(* Strings *)

\* The decimal texts of the explored inputs and the numbers they denote.
DecimalTexts ==
    ( "4.0" :> Fin(4, 1)   @@ "3.7" :> Fin(37, 10) @@ "3.3" :> Fin(33, 10)
   @@ "3.0" :> Fin(3, 1)   @@ "2.7" :> Fin(27, 10) @@ "2.3" :> Fin(23, 10)
   @@ "2.0" :> Fin(2, 1)   @@ "1.7" :> Fin(17, 10) @@ "1.3" :> Fin(13, 10)
   @@ "1.0" :> Fin(1, 1)   @@ "0.0" :> Fin(0, 1)   @@ "9.9" :> Fin(99, 10)
   @@ "3"   :> Fin(3, 1)   @@ "0.5" :> Fin(1, 2)   @@ "0.125" :> Fin(1, 8)
   @@ "0"   :> Fin(0, 1)   @@ "-1"  :> Fin(-1, 1) )

\* parseFloat of a string: the number a decimal text denotes, Infinity for
\* "Infinity", NaN for a text that starts with no number ("", "abc", "A", "a-").
parseFloat(text) ==
    CASE text \in DOMAIN DecimalTexts -> DecimalTexts[text]
      [] text = "Infinity" -> Infinity
      [] OTHER -> NaN

\* parseFloat of a number or null: the value is first converted to a string
\* ("3", "Infinity", "NaN", "null") and that string is parsed.
parseFloatOfValue(x) == IF x.t = "null" THEN NaN ELSE x

RECURSIVE trimStart(_)
trimStart(s) ==
    IF s # <<>> /\ Head(s) = " " THEN trimStart(Tail(s)) ELSE s

RECURSIVE trimEnd(_)
trimEnd(s) ==
    IF s # <<>> /\ s[Len(s)] = " " THEN trimEnd(SubSeq(s, 1, Len(s) - 1)) ELSE s

\* String.prototype.trim
trim(s) == trimEnd(trimStart(s))

----------------------------------------------------------------------------
(* Processing layer: GPAProcessor *)

\* static gradePoints
gradePoints ==
    ( "4.0" :> Fin(4, 1)   @@ "3.7" :> Fin(37, 10) @@ "3.3" :> Fin(33, 10)
   @@ "3.0" :> Fin(3, 1)   @@ "2.7" :> Fin(27, 10) @@ "2.3" :> Fin(23, 10)
   @@ "2.0" :> Fin(2, 1)   @@ "1.7" :> Fin(17, 10) @@ "1.3" :> Fin(13, 10)
   @@ "1.0" :> Fin(1, 1)   @@ "0.0" :> Fin(0, 1) )

\* gradePoints.hasOwnProperty(grade)
hasOwnGradePoint(grade) == grade \in DOMAIN gradePoints

\* The forEach with the grade point added without its weight.
RECURSIVE forEachCourseUnweighted(_, _, _)
forEachCourseUnweighted(cs, i, acc) ==
    IF i > Len(cs) THEN acc
    ELSE LET credits    == parseFloatOfValue(cs[i].credits)
             gradePoint == parseFloat(cs[i].grade)
         IN  forEachCourseUnweighted(cs, i + 1,
                 [totalCredits |-> NumAdd(acc.totalCredits, credits),
                  totalPoints  |-> NumAdd(acc.totalPoints, gradePoint)])

\* The body of the forEach of calculateGPA, from course i on, acc the two sums.
RECURSIVE forEachCourse(_, _, _)
forEachCourse(cs, i, acc) ==
    IF i > Len(cs) THEN acc
    ELSE LET credits    == parseFloatOfValue(cs[i].credits)
             gradePoint == parseFloat(cs[i].grade)
         IN  forEachCourse(cs, i + 1,
                 [totalCredits |-> NumAdd(acc.totalCredits, credits),
                  totalPoints  |-> NumAdd(acc.totalPoints, NumMul(credits, gradePoint))])

\* static calculateGPA(courses)
calculateGPA(cs) ==
    IF Len(cs) = 0
    THEN [gpa |-> Fin(0, 1), totalCredits |-> Fin(0, 1),
          totalPoints |-> Fin(0, 1), courseCount |-> 0]
    ELSE LET sums == forEachCourse(cs, 1,
                         [totalCredits |-> Fin(0, 1), totalPoints |-> Fin(0, 1)])
             gpa  == IF GreaterThanZero(sums.totalCredits)
                     THEN NumDiv(sums.totalPoints, sums.totalCredits)
                     ELSE Fin(0, 1)
         IN  [gpa |-> toFixed2(gpa), totalCredits |-> sums.totalCredits,
              totalPoints |-> toFixed2(sums.totalPoints), courseCount |-> Len(cs)]

\* static validateCourse(name, credits, grade)
validateCourse(name, credits, grade) ==
    (IF trim(name) = <<>> THEN <<"Course name is required">> ELSE <<>>)
    \o (IF isNaN(credits) \/ LessEqZero(ToNumber(credits))
        THEN <<"Credits must be a positive number">> ELSE <<>>)
    \o (IF ~hasOwnGradePoint(grade) THEN <<"Invalid grade selected">> ELSE <<>>)

----------------------------------------------------------------------------
(* Data layer: GPADataLayer *)

\* JSON.stringify(this.courses): a finite number is written as itself, NaN and
\* the infinities as null. The text is represented by the JSON document it
\* spells; JSON.parse gives that document back as a value.
JSONstringify(cs) ==
    [i \in 1..Len(cs) |->
        [name    |-> cs[i].name,
         credits |-> IF cs[i].credits.t = "number" /\ cs[i].credits.k = "fin"
                     THEN cs[i].credits ELSE Null,
         grade   |-> cs[i].grade]]

JSONparse(text) == text

\* No item under the key: getItem returns null.
NoItem == [has |-> FALSE, value |-> <<>>]

\* loadFromStorage(), reading the item `item`
loadFromStorage(item) == IF item.has THEN JSONparse(item.value) ELSE <<>>

\* saveToStorage() when setItem succeeds: the item after the call
saveToStorage(cs) == [has |-> TRUE, value |-> JSONstringify(cs)]

\* splice with the start clamped to the last element instead of the length.
spliceClampedToLast(cs, index) ==
    LET len   == Len(cs)
        start == IF index < 0
                 THEN (IF len + index > 0 THEN len + index ELSE 0)
                 ELSE (IF index < len THEN index ELSE (IF len > 0 THEN len - 1 ELSE 0))
        count == IF len - start < 1 THEN len - start ELSE 1
    IN  SubSeq(cs, 1, start) \o SubSeq(cs, start + count + 1, len)

\* Array.prototype.splice(index, 1) on cs: the array after the call
splice(cs, index) ==
    LET len   == Len(cs)
        start == IF index < 0
                 THEN (IF len + index > 0 THEN len + index ELSE 0)
                 ELSE (IF index < len THEN index ELSE len)
        count == IF len - start < 1 THEN len - start ELSE 1
    IN  SubSeq(cs, 1, start) \o SubSeq(cs, start + count + 1, len)

\* unshift in the place of push: the course is put first.
unshift(cs, course) == <<course>> \o cs

\* courses.push(course)
push(cs, course) == Append(cs, course)

----------------------------------------------------------------------------
(* UI layer: GPAUI *)

\* getGradeLabel(gradeValue)
gradeLabels ==
    ( "4.0" :> "A"  @@ "3.7" :> "A-" @@ "3.3" :> "B+" @@ "3.0" :> "B"
   @@ "2.7" :> "B-" @@ "2.3" :> "C+" @@ "2.0" :> "C"  @@ "1.7" :> "C-"
   @@ "1.3" :> "D+" @@ "1.0" :> "D"  @@ "0.0" :> "F" )

getGradeLabel(gradeValue) ==
    IF gradeValue \in DOMAIN gradeLabels THEN gradeLabels[gradeValue] ELSE "Unknown"

\* escapeHtml(unsafe), one character at a time
escapeChar(c) ==
    CASE c = "&"  -> <<"&", "a", "m", "p", ";">>
      [] c = "<"  -> <<"&", "l", "t", ";">>
      [] c = ">"  -> <<"&", "g", "t", ";">>
      [] c = "\"" -> <<"&", "q", "u", "o", "t", ";">>
      [] c = "'"  -> <<"&", "#", "0", "3", "9", ";">>
      [] OTHER    -> <<c>>

RECURSIVE escapeHtml(_)
escapeHtml(unsafe) ==
    IF unsafe = <<>> THEN <<>>
    ELSE escapeChar(Head(unsafe)) \o escapeHtml(Tail(unsafe))

\* renderCourses(): one row per course, its Remove button holding the index;
\* no row (the empty-state text) for an empty store.
renderCourses(cs) ==
    [i \in 1..Len(cs) |->
        [name    |-> escapeHtml(cs[i].name),
         credits |-> cs[i].credits,
         grade   |-> getGradeLabel(cs[i].grade),
         index   |-> i - 1]]

\* updateResults(): the four texts shown
updateResults(cs) == calculateGPA(cs)

----------------------------------------------------------------------------
(* The inputs explored *)

\* Texts typed into #courseName
NameValues == { <<>>, <<" ">>, <<" ", "A", "&", " ">> }

\* Texts held by #courseCredits
CreditsValues == { "3", "0", "", "Infinity" }

\* Values held by #courseGrade
GradeValues == { "4.0", "3.0", "9.9" }

\* Indexes removeCourseHandler is called with: the rendered Remove buttons hold
\* 0 .. rows - 1; window.gpaUI exposes the handler to any other caller.
Indexes == (0 - MaxCourses - 1) .. MaxCourses

\* What `last` and `call` hold when no handler, or no direct call, has run.
Loaded == [op |-> "load", len |-> 0, index |-> 0, errors |-> <<>>,
           confirmed |-> FALSE, outcome |-> "returned"]

NoCall == [fn |-> "none", courses |-> <<>>, name |-> <<>>, credits |-> NaN,
           grade |-> "", done |-> FALSE, outcome |-> "none", errors |-> <<>>,
           result |-> calculateGPA(<<>>)]

----------------------------------------------------------------------------
(* The application: construction and the event handlers *)

\* new GPADataLayer(); new GPAUI(dataLayer, GPAProcessor), reading the item `item`
Construct(item) ==
    /\ courses' = loadFromStorage(item)
    /\ coursesList' = renderCourses(loadFromStorage(item))
    /\ results' = updateResults(loadFromStorage(item))
    /\ last' = Loaded

\* The first page load of a profile that holds no item.
Init ==
    /\ localStorage = NoItem
    /\ courses = loadFromStorage(NoItem)
    /\ coursesList = renderCourses(loadFromStorage(NoItem))
    /\ results = updateResults(loadFromStorage(NoItem))
    /\ last = Loaded
    /\ failures = 0
    /\ call = NoCall

\* A later page load: the script runs again on what localStorage holds.
PageLoad ==
    /\ Construct(localStorage)
    /\ UNCHANGED <<localStorage, failures, call>>

\* The data layer has set this.courses to cs and calls saveToStorage(); the
\* handler then calls renderCourses() and updateResults(). setItem either stores
\* the text or throws (the quota is exceeded): the exception leaves the handler,
\* and what follows the call in it does not run.
SaveAndRender(cs, op, index, confirmed) ==
    /\ courses' = cs
    /\ \/ /\ localStorage' = saveToStorage(cs)
          /\ coursesList' = renderCourses(cs)
          /\ results' = updateResults(cs)
          /\ last' = [op |-> op, len |-> Len(courses), index |-> index, errors |-> <<>>,
                      confirmed |-> confirmed, outcome |-> "returned"]
          /\ UNCHANGED failures
       \/ /\ failures < MaxWriteFailures
          /\ failures' = failures + 1
          /\ UNCHANGED <<localStorage, coursesList, results>>
          /\ last' = [op |-> op, len |-> Len(courses), index |-> index, errors |-> <<>>,
                      confirmed |-> confirmed, outcome |-> "threw"]

\* addCourseHandler without the return that follows the alert.
addCourseHandlerNoReturn(nameValue, creditsValue, gradeValue) ==
    LET name    == trim(nameValue)
        credits == parseFloat(creditsValue)
        grade   == gradeValue
        errors  == validateCourse(name, credits, grade)
    IN  /\ Len(courses) < MaxCourses
        /\ courses' = push(courses, [name |-> name, credits |-> credits, grade |-> grade])
        /\ localStorage' = saveToStorage(courses')
        /\ coursesList' = renderCourses(courses')
        /\ results' = updateResults(courses')
        /\ last' = [op |-> "add", len |-> Len(courses), index |-> 0, errors |-> errors,
                    confirmed |-> FALSE, outcome |-> "returned"]
        /\ UNCHANGED <<failures, call>>

\* addCourseHandler(), the three inputs holding these values
addCourseHandler(nameValue, creditsValue, gradeValue) ==
    LET name    == trim(nameValue)
        credits == parseFloat(creditsValue)
        grade   == gradeValue
        errors  == validateCourse(name, credits, grade)
    IN  /\ Len(courses) < MaxCourses
        /\ IF Len(errors) > 0
           THEN /\ last' = [op |-> "add", len |-> Len(courses), index |-> 0, errors |-> errors,
                            confirmed |-> FALSE, outcome |-> "returned"]
                /\ UNCHANGED <<courses, localStorage, coursesList, results, failures>>
           ELSE SaveAndRender(
                    push(courses, [name |-> name, credits |-> credits, grade |-> grade]),
                    "add", 0, FALSE)
        /\ UNCHANGED call

\* removeCourseHandler(index)
removeCourseHandler(index) ==
    /\ SaveAndRender(splice(courses, index), "remove", index, FALSE)
    /\ UNCHANGED call

\* clearAllCoursesHandler without the confirm() test.
clearAllCoursesHandlerNoConfirm(confirmed) ==
    /\ SaveAndRender(<<>>, "clear", 0, confirmed)
    /\ UNCHANGED call

\* clearAllCoursesHandler(), confirm() answering `confirmed`
clearAllCoursesHandler(confirmed) ==
    /\ IF confirmed
       THEN SaveAndRender(<<>>, "clear", 0, TRUE)
       ELSE /\ last' = [op |-> "clear", len |-> Len(courses), index |-> 0, errors |-> <<>>,
                        confirmed |-> FALSE, outcome |-> "returned"]
            /\ UNCHANGED <<courses, localStorage, coursesList, results, failures>>
    /\ UNCHANGED call

\* saveDataHandler()
saveDataHandler ==
    /\ \/ /\ localStorage' = saveToStorage(courses)
          /\ last' = [op |-> "save", len |-> Len(courses), index |-> 0, errors |-> <<>>,
                      confirmed |-> FALSE, outcome |-> "returned"]
          /\ UNCHANGED failures
       \/ /\ failures < MaxWriteFailures
          /\ failures' = failures + 1
          /\ UNCHANGED localStorage
          /\ last' = [op |-> "save", len |-> Len(courses), index |-> 0, errors |-> <<>>,
                      confirmed |-> FALSE, outcome |-> "threw"]
    /\ UNCHANGED <<courses, coursesList, results, call>>

AddCourse ==
    \E nameValue \in NameValues, creditsValue \in CreditsValues, gradeValue \in GradeValues :
        addCourseHandler(nameValue, creditsValue, gradeValue)

RemoveCourse == \E index \in Indexes : removeCourseHandler(index)

ClearAll == \E confirmed \in BOOLEAN : clearAllCoursesHandler(confirmed)

Next == AddCourse \/ RemoveCourse \/ ClearAll \/ saveDataHandler \/ PageLoad

Spec == Init /\ [][Next]_vars

----------------------------------------------------------------------------
(* Direct calls of the static functions of GPAProcessor *)

SeqsUpTo(S, n) == UNION { [1..m -> S] : m \in 0..n }

\* Course records handed to calculateGPA: credits 0, 1/8, 3, Infinity and null
\* (an infinite credit read back from storage); the 11 tokens, and two grades
\* that are none of them.
CalcCredits == { Fin(0, 1), Fin(1, 8), Fin(3, 1), Infinity, Null }

CalcGrades == DOMAIN gradePoints \cup { "9.9", "A" }

CalcCourses == [name : { <<"C">> }, credits : CalcCredits, grade : CalcGrades]

\* Arguments handed to validateCourse.
ValidateNames == NameValues \cup { <<"C">> }

ValidateCredits == { Fin(3, 1), Fin(1, 8), Fin(0, 1), Fin(-1, 1), NaN, Infinity }

InitCalc ==
    /\ localStorage = NoItem
    /\ courses = <<>>
    /\ coursesList = renderCourses(<<>>)
    /\ results = updateResults(<<>>)
    /\ last = Loaded
    /\ failures = 0
    /\ \/ \E cs \in SeqsUpTo(CalcCourses, MaxLen) :
             call = [NoCall EXCEPT !.fn = "calculateGPA", !.courses = cs]
       \/ \E name \in ValidateNames, credits \in ValidateCredits, grade \in CalcGrades :
             call = [NoCall EXCEPT !.fn = "validateCourse", !.name = name,
                                   !.credits = credits, !.grade = grade]

\* GPAProcessor.calculateGPA(call.courses): it has no throw, it returns.
CallCalculateGPA ==
    /\ call.fn = "calculateGPA"
    /\ ~call.done
    /\ call' = [call EXCEPT !.done = TRUE, !.outcome = "returned",
                            !.result = calculateGPA(call.courses)]
    /\ UNCHANGED <<courses, localStorage, coursesList, results, last, failures>>

\* GPAProcessor.validateCourse(call.name, call.credits, call.grade)
CallValidateCourse ==
    /\ call.fn = "validateCourse"
    /\ ~call.done
    /\ call' = [call EXCEPT !.done = TRUE, !.outcome = "returned",
                            !.errors = validateCourse(call.name, call.credits, call.grade)]
    /\ UNCHANGED <<courses, localStorage, coursesList, results, last, failures>>

NextCalc == CallCalculateGPA \/ CallValidateCourse

SpecCalc == InitCalc /\ [][NextCalc]_vars

----------------------------------------------------------------------------
(* The properties *)

\* The 11 tokens of the grade scale.
GradeTokens == { "4.0", "3.7", "3.3", "3.0", "2.7", "2.3", "2.0", "1.7", "1.3", "1.0", "0.0" }

\* A number that is finite and positive.
FinitePositive(x) == x.t = "number" /\ x.k = "fin" /\ x.n > 0

\* A name with a character that is no white space.
NonBlank(name) == \E i \in 1..Len(name) : name[i] # " "

\* cs without the element at 0-based position p.
Without(cs, p) == [j \in 1..(Len(cs) - 1) |-> IF j <= p THEN cs[j] ELSE cs[j + 1]]

\* The handler that ran last changed the store through the data layer and
\* returned (setItem did not throw).
Mutated ==
    /\ last.outcome = "returned"
    /\ \/ last.op = "add" /\ last.errors = <<>>
       \/ last.op = "remove"
       \/ last.op = "clear" /\ last.confirmed

\* C1: in every reachable state every record the store holds is valid: its name
\* is non-empty after trimming, its credits are a finite positive number and its
\* grade is one of the 11 tokens.
C1_StoredCoursesValid ==
    \A i \in 1..Len(courses) :
        /\ NonBlank(courses[i].name)
        /\ FinitePositive(courses[i].credits)
        /\ courses[i].grade \in GradeTokens

\* C2: after every add, remove or clear whose storage write succeeded, a fresh
\* store constructed from the persisted item holds the sequence the store in
\* memory holds.
C2_WriteThrough ==
    Mutated => (localStorage.has /\ loadFromStorage(localStorage) = courses)

\* C3: an add whose input fails validation (validate returns at least one
\* error) leaves the sequence in memory and the persisted item as they were.
C3_InvalidInputNeverMutates ==
    [][(last'.op = "add" /\ Len(last'.errors) > 0)
            => (courses' = courses /\ localStorage' = localStorage)]_vars

\* C3 witness: an add was rejected with all three errors while the store held a
\* course.
C3_Witness ==
    /\ last.op = "add"
    /\ Len(last.errors) = 3
    /\ last.len > 0
    /\ Len(courses) = last.len

RECURSIVE RefCredits8(_)
RefCredits8(cs) ==
    IF cs = <<>> THEN 0
    ELSE (8 * Head(cs).credits.n) \div Head(cs).credits.d + RefCredits8(Tail(cs))

RECURSIVE RefPoints80(_)
RefPoints80(cs) ==
    IF cs = <<>> THEN 0
    ELSE ((8 * Head(cs).credits.n) \div Head(cs).credits.d)
             * ((10 * gradePoints[Head(cs).grade].n) \div gradePoints[Head(cs).grade].d)
         + RefPoints80(Tail(cs))

\* shown is a finite value with two decimals that is a hundredth nearest to num / den.
NearestHundredth(shown, num, den) ==
    /\ shown.k = "fin"
    /\ shown.d = 100
    /\ 2 * Abs(shown.n * den - 100 * num) <= den

\* Course sequences of the data model, the zero credit the claim names included:
\* finite credits >= 0 and grades among the 11 tokens.
CourseSequence(cs) ==
    \A i \in 1..Len(cs) :
        /\ cs[i].credits.t = "number"
        /\ cs[i].credits.k = "fin"
        /\ cs[i].credits.n >= 0
        /\ cs[i].grade \in GradeTokens

\* C5: calculate agrees with the weighted average. For the empty sequence all
\* four results are 0; otherwise totalCredits is the sum of the credits,
\* totalPoints the sum of credits x grade point to 2 decimals, courseCount the
\* length, and gpa is totalPoints / totalCredits to 2 decimals, 0 when
\* totalCredits is 0.
C5_CalculateIsWeightedAverage ==
    (call.fn = "calculateGPA" /\ call.done /\ CourseSequence(call.courses))
        => LET r == call.result
               C == RefCredits8(call.courses)
               P == RefPoints80(call.courses)
           IN  IF Len(call.courses) = 0
               THEN /\ r.gpa = Fin(0, 1)
                    /\ r.totalCredits = Fin(0, 1)
                    /\ r.totalPoints = Fin(0, 1)
                    /\ r.courseCount = 0
               ELSE /\ r.courseCount = Len(call.courses)
                    /\ r.totalCredits = Fin(C, 8)
                    /\ NearestHundredth(r.totalPoints, P, 80)
                    /\ IF C = 0
                       THEN r.gpa.k = "fin" /\ r.gpa.n = 0
                       ELSE NearestHundredth(r.gpa, P, 10 * C)

\* C5 witness: credits 3 at "4.0" and 3 at "3.0" gave totalCredits 6,
\* totalPoints 21.00, gpa 3.50, courseCount 2.
C5_Witness ==
    /\ call.fn = "calculateGPA"
    /\ call.done
    /\ call.courses = << [name |-> <<"C">>, credits |-> Fin(3, 1), grade |-> "4.0"],
                         [name |-> <<"C">>, credits |-> Fin(3, 1), grade |-> "3.0"] >>
    /\ call.result.totalCredits = Fin(6, 1)
    /\ call.result.totalPoints.n = 2100
    /\ call.result.gpa.n = 350
    /\ call.result.courseCount = 2

\* C6: validate returns exactly the applicable errors, in the order of the
\* checks: the name error iff the name is blank, the credits error iff the
\* credits are not a finite positive number, the grade error iff the grade is
\* none of the 11 tokens.
C6_ValidateReportsEachError ==
    (call.fn = "validateCourse" /\ call.done)
        => call.errors =
              (IF ~NonBlank(call.name) THEN <<"Course name is required">> ELSE <<>>)
              \o (IF ~FinitePositive(call.credits)
                  THEN <<"Credits must be a positive number">> ELSE <<>>)
              \o (IF call.grade \notin GradeTokens
                  THEN <<"Invalid grade selected">> ELSE <<>>)

\* C7: the grade point calculate uses is the mapped value for each of the 11
\* tokens, and a calculate that meets any other grade fails with UnknownGrade.
C7_UnknownGradeFails ==
    /\ \A token \in GradeTokens : parseFloat(token) = gradePoints[token]
    /\ (/\ call.fn = "calculateGPA"
        /\ call.done
        /\ \E i \in 1..Len(call.courses) : call.courses[i].grade \notin GradeTokens)
          => call.outcome = "UnknownGrade"

C10_ViewNeverStale ==
    last.outcome = "returned"
        => /\ Len(coursesList) = Len(courses)
           /\ \A i \in 1..Len(courses) :
                 /\ coursesList[i].index = i - 1
                 /\ coursesList[i].name = escapeHtml(courses[i].name)
                 /\ coursesList[i].credits = courses[i].credits
                 /\ coursesList[i].grade = getGradeLabel(courses[i].grade)
           /\ results = calculateGPA(courses)

====
